---- MODULE Spec2Model ----
(***************************************************************************)
(* A model of the WhatsApp export analysis tool: the phone normalizer, the *)
(* contact book parser, the chat lookup table, the message reconciliation  *)
(* pipeline (data_load.py), the dashboard script (app.py) and the          *)
(* transcript exporter (txt_export.py).                                    *)
(*                                                                         *)
(* Text is a sequence of one-character strings, so that str.replace,       *)
(* str.strip, str.split, slicing and len are computed character by         *)
(* character.  A nullable column holds NULL (None / NaN / SQL NULL) or     *)
(* Val(v).                                                                 *)
(***************************************************************************)
EXTENDS Integers, Sequences, FiniteSets, TLC

VARIABLES
    phone,              \* normalize_phone: the argument
    num,                \* normalize_phone: the returned string (NULL before the call)
    vcf_file,           \* parse_contacts: the lines of the file being written
    contacts,           \* parse_contacts: the returned dict (NULL before the call)
    fs,                 \* the working directory: contacts.vcf (NULL: no file)
    db,                 \* msgstore.db: its tables (a missing table is NULL)
    pc,                 \* where the pipeline invocation stands
    entry,              \* the function the caller invoked
    conns,              \* one state per sqlite3 connection the invocation opened
    contacts_mapping,   \* load_whatsapp_data: the result of load_contacts()
    lookup,             \* the DataFrame lookup_table() returned
    messages_df,        \* load_whatsapp_data: the merged frame, then the canonical table
    raised,             \* the exception that ended the invocation (NULL: none)
    app_table,          \* app.py: the table load_whatsapp_data() returns to it
    date_range,         \* app.py: the (start, end) dates picked in the sidebar
    app_df,             \* app.py: messages_df, the table filtered to date_range (once picked)
    app_pc,             \* app.py: the section of the script being run
    app_raised,         \* app.py: the exception that stopped the script (NULL: none)
    report,             \* app.py: the statistics shown so far
    exp_table,          \* txt_export.py: the table load_whatsapp_data() returns to it
    exp_pc,             \* txt_export.py: where export_all_chats() stands
    unique_chats,       \* export_all_chats: the chats the loop has yet to process
    exported_count,     \* export_all_chats: the counter of the final summary
    chat_txt_files,     \* the output folder: file name -> text of the file
    exported            \* the calls of export_chat_to_file made so far

normVars == <<phone, num>>
vcfVars  == <<vcf_file, contacts>>
pipeVars == <<fs, db, pc, entry, conns, contacts_mapping, lookup, messages_df, raised>>
appVars  == <<app_table, date_range, app_df, app_pc, app_raised, report>>
expVars  == <<exp_table, exp_pc, unique_chats, exported_count, chat_txt_files, exported>>
vars     == <<normVars, vcfVars, pipeVars, appVars, expVars>>

----------------------------------------------------------------------------
(* Values *)

NULL == [null |-> TRUE]
Val(v) == [null |-> FALSE, v |-> v]
notnull(x) == x # NULL

\* A dict as a function; d.get(k, default) and d[k] = v.
EmptyDict == [k \in {} |-> NULL]
DictGet(d, k, default) == IF k \in DOMAIN d THEN d[k] ELSE default
DictSet(d, k, v) == [x \in DOMAIN d \cup {k} |-> IF x = k THEN v ELSE d[x]]

----------------------------------------------------------------------------
(* Python string operations, on sequences of characters *)

Whitespace == {" ", "\t", "\n"}

\* s.replace(c, '')
Remove(s, c) == SelectSeq(s, LAMBDA x : x # c)

RECURSIVE LStrip(_)
LStrip(s) == IF s # <<>> /\ Head(s) \in Whitespace THEN LStrip(Tail(s)) ELSE s

RECURSIVE RStrip(_)
RStrip(s) ==
    IF s # <<>> /\ s[Len(s)] \in Whitespace THEN RStrip(SubSeq(s, 1, Len(s) - 1)) ELSE s

\* s.strip()
Strip(s) == RStrip(LStrip(s))

LowerCase == <<"a", "b", "c", "d", "e", "f", "g", "h", "i", "j", "k", "l", "m",
               "n", "o", "p", "q", "r", "s", "t", "u", "v", "w", "x", "y", "z">>
UpperCase == <<"A", "B", "C", "D", "E", "F", "G", "H", "I", "J", "K", "L", "M",
               "N", "O", "P", "Q", "R", "S", "T", "U", "V", "W", "X", "Y", "Z">>

ToUpper ==
    [c \in {LowerCase[i] : i \in 1..Len(LowerCase)} |->
        UpperCase[CHOOSE i \in 1..Len(LowerCase) : LowerCase[i] = c]]

UpperChar(c) == IF c \in DOMAIN ToUpper THEN ToUpper[c] ELSE c

\* s.upper()
Upper(s) == [i \in 1..Len(s) |-> UpperChar(s[i])]

\* s.startswith(prefix)
StartsWith(s, prefix) == Len(s) >= Len(prefix) /\ SubSeq(s, 1, Len(prefix)) = prefix

\* s[n:]
From(s, n) == SubSeq(s, n + 1, Len(s))

\* s.split(c, 1): one part when c does not occur, else the text before the first c
\* and the text after it.
Split1(s, c) ==
    IF \E i \in 1..Len(s) : s[i] = c
    THEN LET i == CHOOSE j \in 1..Len(s) : s[j] = c /\ \A k \in 1..(j - 1) : s[k] # c
         IN  <<SubSeq(s, 1, i - 1), SubSeq(s, i + 1, Len(s))>>
    ELSE <<s>>

\* str(x) of a nullable text: str(None) is "None".
str(x) == IF x = NULL THEN <<"N", "o", "n", "e">> ELSE x.v

----------------------------------------------------------------------------
(* data_load.normalize_phone *)

CountryCode == <<"3", "9">>

\* A variant that keeps only the last 10 characters (what a truncating
\* normalizer would return).
normalize_phone_truncating(p) ==
    LET n == Strip(Remove(Remove(p, "+"), "-"))
    IN  IF Len(n) > 10 THEN SubSeq(n, Len(n) - 9, Len(n)) ELSE n

\* A variant that forgets to remove the '-' characters.
normalize_phone_keeping_dashes(p) ==
    LET n == Strip(Remove(p, "+"))
    IN  IF Len(n) = 10 THEN CountryCode \o n ELSE n

normalize_phone(p) ==
    LET n == Strip(Remove(Remove(p, "+"), "-"))
    IN  IF Len(n) = 10 THEN CountryCode \o n ELSE n

----------------------------------------------------------------------------
(* data_load.parse_contacts *)

BEGIN_VCARD == <<"B", "E", "G", "I", "N", ":", "V", "C", "A", "R", "D">>
END_VCARD   == <<"E", "N", "D", ":", "V", "C", "A", "R", "D">>
FN_         == <<"F", "N", ":">>
TEL_        == <<"T", "E", "L">>

\* The scan's state before the first line: contacts = {}, current_name = None.
ParseStart == [contacts |-> EmptyDict, current_name |-> NULL]

\* `if current_name:` is false for None and for the empty string.
Truthy(name) == name # NULL /\ name.v # <<>>

\* The loop body without the reset of current_name at BEGIN:VCARD and END:VCARD.
ParseLineNoReset(st, raw) ==
    LET line == Strip(raw)
        up   == Upper(line)
    IN  IF StartsWith(up, BEGIN_VCARD) THEN st
        ELSE IF StartsWith(up, FN_)
        THEN [st EXCEPT !.current_name = Val(Strip(From(line, 3)))]
        ELSE IF StartsWith(up, TEL_)
        THEN LET parts == Split1(line, ":")
             IN  IF Len(parts) = 2 /\ Truthy(st.current_name)
                 THEN [st EXCEPT !.contacts =
                          DictSet(@, normalize_phone(Strip(parts[2])), st.current_name.v)]
                 ELSE st
        ELSE st

\* One iteration of `for line in f`.
ParseLine(st, raw) ==
    LET line == Strip(raw)
        up   == Upper(line)
    IN  IF StartsWith(up, BEGIN_VCARD) THEN [st EXCEPT !.current_name = NULL]
        ELSE IF StartsWith(up, FN_)
        THEN [st EXCEPT !.current_name = Val(Strip(From(line, 3)))]
        ELSE IF StartsWith(up, TEL_)
        THEN LET parts == Split1(line, ":")
             IN  IF Len(parts) = 2 /\ Truthy(st.current_name)
                 THEN [st EXCEPT !.contacts =
                          DictSet(@, normalize_phone(Strip(parts[2])), st.current_name.v)]
                 ELSE st
        ELSE IF StartsWith(up, END_VCARD) THEN [st EXCEPT !.current_name = NULL]
        ELSE st

RECURSIVE ParseFrom(_, _)
ParseFrom(st, lines) ==
    IF lines = <<>> THEN st ELSE ParseFrom(ParseLine(st, Head(lines)), Tail(lines))

\* parse_contacts(vcf_file), given the lines of the file.
parse_contacts(lines) == ParseFrom(ParseStart, lines).contacts

----------------------------------------------------------------------------
(* DataFrames are sequences of rows (records); the merges of data_load.py *)

GROUP_SERVER == <<"g", ".", "u", "s">>

\* The columns a left merge fills with NaN when no row matches.
NoJid  == [_id_jid |-> NULL, user |-> NULL, server |-> NULL]
NoChat == [_id_chat |-> NULL, subject |-> NULL]

JidColumns(r)  == [_id_jid |-> Val(r._id), user |-> r.user, server |-> Val(r.server)]
ChatColumns(c) == [_id_chat |-> Val(c._id), subject |-> c.subject]

\* A NULL key matches no row.
SenderMatches(m, r) == m.sender_jid_row_id # NULL /\ m.sender_jid_row_id.v = r._id

\* The same merge with how='inner': a message without a matching row is dropped.
RECURSIVE MergeSenderInner(_, _)
MergeSenderInner(left, jid) ==
    IF left = <<>> THEN <<>>
    ELSE LET m    == Head(left)
             hits == SelectSeq(jid, LAMBDA r : SenderMatches(m, r))
         IN  [i \in 1..Len(hits) |-> m @@ JidColumns(hits[i])]
                 \o MergeSenderInner(Tail(left), jid)

\* messages_df.merge(jid_df, how='left', left_on='sender_jid_row_id', right_on='_id',
\*                   suffixes=('', '_jid'))
RECURSIVE MergeSender(_, _)
MergeSender(left, jid) ==
    IF left = <<>> THEN <<>>
    ELSE LET m    == Head(left)
             hits == SelectSeq(jid, LAMBDA r : SenderMatches(m, r))
         IN  (IF hits = <<>> THEN <<m @@ NoJid>>
              ELSE [i \in 1..Len(hits) |-> m @@ JidColumns(hits[i])])
                 \o MergeSender(Tail(left), jid)

\* messages_df.merge(chats_df[['_id', 'subject']], how='left', left_on='chat_row_id',
\*                   right_on='_id', suffixes=('', '_chat'))
RECURSIVE MergeChat(_, _)
MergeChat(left, chat) ==
    IF left = <<>> THEN <<>>
    ELSE LET m    == Head(left)
             hits == SelectSeq(chat, LAMBDA c : c._id = m.chat_row_id)
         IN  (IF hits = <<>> THEN <<m @@ NoChat>>
              ELSE [i \in 1..Len(hits) |-> m @@ ChatColumns(hits[i])])
                 \o MergeChat(Tail(left), chat)

\* pd.to_datetime(timestamp, unit='ms'): the day since the epoch and the
\* millisecond of that day.
MsPerDay == 86400000
to_datetime(ts) == Val([day |-> ts \div MsPerDay, ms |-> ts % MsPerDay])

\* load_whatsapp_data, lines 86-108: the three tables read, merged, with datetime.
LoadFrame(d) ==
    LET merged == MergeChat(MergeSender(d.message, d.jid), d.chat)
    IN  [i \in 1..Len(merged) |-> merged[i] @@ [datetime |-> to_datetime(merged[i].timestamp)]]

\* load_contacts(): an absent contacts.vcf gives the empty mapping.
load_contacts(f) == IF f = NULL THEN EmptyDict ELSE parse_contacts(f.v)

\* pd.merge(chats_df, jid_df, left_on='jid_row_id', right_on='_id'): an inner merge.
RECURSIVE MergeLookup(_, _)
MergeLookup(chats, jid) ==
    IF chats = <<>> THEN <<>>
    ELSE LET c    == Head(chats)
             hits == SelectSeq(jid, LAMBDA r : r._id = c.jid_row_id)
         IN  [i \in 1..Len(hits) |->
                 [chat_id |-> c._id, jid_row_id |-> c.jid_row_id, _id |-> hits[i]._id,
                  user |-> hits[i].user, server |-> hits[i].server]]
                 \o MergeLookup(Tail(chats), jid)

\* No filter at all: group chats stay in the table.
OneOnOneUnfiltered(row) == TRUE

\* merged_df['server'] != 'g.us'
OneOnOne(row) == row.server # GROUP_SERVER

\* contacts_mapping.get(p, p) with p = normalize_phone(user)
LookupName(mapping, user) ==
    DictGet(mapping, normalize_phone(str(user)), normalize_phone(str(user)))

\* sort_values('chat_id'): the rows in ascending chat_id (chat ids are distinct,
\* one row per chat).
RECURSIVE SortByChatId(_)
SortByChatId(rows) ==
    IF rows = <<>> THEN <<>>
    ELSE LET least == CHOOSE i \in 1..Len(rows) :
                          \A j \in 1..Len(rows) :
                              \/ rows[i].chat_id < rows[j].chat_id
                              \/ (rows[i].chat_id = rows[j].chat_id /\ i <= j)
         IN  <<rows[least]>>
                 \o SortByChatId([k \in 1..(Len(rows) - 1) |->
                                     IF k < least THEN rows[k] ELSE rows[k + 1]])

\* lookup_table, lines 63-77, from the parsed contacts and the two tables read.
LookupFrame(mapping, d) ==
    LET one_on_one == SelectSeq(MergeLookup(d.chat, d.jid), OneOnOne)
    IN  SortByChatId([i \in 1..Len(one_on_one) |->
            [chat_id      |-> one_on_one[i].chat_id,
             phone_number |-> normalize_phone(str(one_on_one[i].user)),
             display_name |-> LookupName(mapping, one_on_one[i].user)]])

\* lookup.set_index('chat_id')['display_name']
lookup_mapping(frame) ==
    [c \in {frame[i].chat_id : i \in 1..Len(frame)} |->
        frame[CHOOSE i \in 1..Len(frame) : frame[i].chat_id = c].display_name]

\* messages_df['chat_row_id'].map(lookup_mapping): NaN for a chat that is not in
\* the index.
MapChat(mapping, chat_row_id) ==
    IF chat_row_id \in DOMAIN mapping THEN Val(mapping[chat_row_id]) ELSE NULL

\* The display_name of one row (np.where, lines 117-122).
DisplayName(row, mapping, fallback) ==
    IF notnull(row.user)
    THEN Val(DictGet(mapping, normalize_phone(str(row.user)), row.user.v))
    ELSE MapChat(fallback, row.chat_row_id)

\* Lines 114-129: display_name added, subject renamed to group, the columns
\* projected to the canonical order.
Canonical(frame, mapping, look) ==
    [i \in 1..Len(frame) |->
        [_id               |-> frame[i]._id,
         chat_row_id       |-> frame[i].chat_row_id,
         user              |-> frame[i].user,
         display_name      |-> DisplayName(frame[i], mapping, lookup_mapping(look)),
         group             |-> frame[i].subject,
         from_me           |-> frame[i].from_me,
         text_data         |-> frame[i].text_data,
         timestamp         |-> frame[i].timestamp,
         datetime          |-> frame[i].datetime,
         sender_jid_row_id |-> frame[i].sender_jid_row_id,
         _id_jid           |-> frame[i]._id_jid,
         server            |-> frame[i].server]]

----------------------------------------------------------------------------
(* Bounds and input sets *)

MaxShort == 3       \* longest run of arbitrary characters around a phone's digits
MaxLines == 5       \* most lines of a contacts.vcf written line by line
MaxRows  == 4       \* most rows msgstore.db holds, over its three tables
MaxMsgs  == 2       \* most rows of its message table
MaxExportMsgs == 2  \* most messages of the table the exporter loads

PhoneAlphabet == {"+", "-", " ", "7"}

\* Every text over alphabet A of at most n characters.
RECURSIVE TextsUpTo(_, _)
TextsUpTo(A, n) ==
    IF n = 0 THEN {<<>>}
    ELSE LET shorter == TextsUpTo(A, n - 1)
         IN  shorter \cup {<<c>> \o t : c \in A, t \in {u \in shorter : Len(u) = n - 1}}

Digit == <<"1", "2", "3", "4", "5", "6", "7", "8", "9", "0">>
DigitRun(n) == [i \in 1..n |-> Digit[((i - 1) % 10) + 1]]
RunLengths == {0, 7, 9, 10, 11}

\* Phone strings: arbitrary characters, then a run of digits, then at most one
\* more arbitrary character.
PhoneInputs ==
    {a \o DigitRun(n) \o b :
        a \in TextsUpTo(PhoneAlphabet, MaxShort), n \in RunLengths,
        b \in TextsUpTo(PhoneAlphabet, 1)}

L_BEGIN    == BEGIN_VCARD
L_END      == END_VCARD
L_FN_AL    == <<"F", "N", ":", "A", "l">>
L_FN_BO    == <<" ", "f", "n", ":", " ", "B", "o">>
L_FN_EMPTY == <<"F", "N", ":">>
L_TEL_A    == <<"T", "E", "L", ":", "+", "1", "-", "5">>
L_TEL_BARE == <<"T", "E", "L">>
L_TEL_B    == <<"t", "e", "l", ";", "c", "e", "l", "l", ":", " ", "1", "5">>

VcfLines ==
    {L_BEGIN, L_END, L_FN_AL, L_FN_BO, L_FN_EMPTY, L_TEL_A, L_TEL_B, L_TEL_BARE}

\* The fixtures of the pipeline: contact files, identities, chats, messages.
L_FN_ALICE  == <<"F", "N", ":", "A", "l", "i", "c", "e">>
L_TEL_ALICE == <<"T", "E", "L", ":", "+", "1", "-", "5", "5", "5", "-", "0", "1", "0", "0">>
L_TEL_BO    == <<"T", "E", "L", ";", "T", "Y", "P", "E", "=", "C", "E", "L", "L", ":", " ",
                 "+", "3", "9", "3", "3", "3", "1", "2", "3", "4", "5", "6", "7">>
AliceFile == <<L_BEGIN, L_FN_ALICE, L_TEL_ALICE, L_END>>
BothFile  == AliceFile \o <<L_BEGIN, L_FN_BO, L_TEL_BO, L_END>>
VcfFiles  == {NULL, Val(AliceFile), Val(BothFile)}

U_ALICE == <<"5", "5", "5", "0", "1", "0", "0">>
U_BO    == <<"3", "3", "3", "1", "2", "3", "4", "5", "6", "7">>
U_GROUP == <<"1", "2", "0", "3", "6", "3">>
USER_SERVER == <<"s", ".", "w", "h", "a", "t", "s", "a", "p", "p", ".", "n", "e", "t">>
Identities ==
    {[user |-> Val(U_ALICE), server |-> USER_SERVER],
     [user |-> Val(U_BO), server |-> USER_SERVER],
     [user |-> Val(U_GROUP), server |-> GROUP_SERVER]}

RowIds   == {1, 2}
TEAM     == <<"T", "e", "a", "m">>
Subjects == {NULL, Val(TEAM)}
\* A sent message carries no sender identity; a received one may.
Senders  == {[from_me |-> 1, sender |-> NULL], [from_me |-> 0, sender |-> NULL]}
                \cup {[from_me |-> 0, sender |-> Val(j)] : j \in RowIds}
HI == <<"h", "i">>
\* The n-th message's timestamp, in ms since the epoch: one minute after the
\* one before (TLC's integers are 32-bit, so the store starts at the epoch).
Clock(n) == 60000 * n

\* msgstore.db with its three tables, empty; and the empty database that
\* sqlite3.connect creates when there is no msgstore.db file.
AllTables == {"chat", "message", "jid"}
EmptyStore(tables) == [tables |-> tables, chat |-> <<>>, jid |-> <<>>, message |-> <<>>]
RowCount(d) == Len(d.chat) + Len(d.jid) + Len(d.message)

----------------------------------------------------------------------------
(* Idle values of the variables a specification does not use *)

NormIdle == phone = <<>> /\ num = NULL
VcfIdle  == vcf_file = <<>> /\ contacts = NULL
PipeIdle ==
    /\ fs = NULL /\ db = NULL /\ pc = "idle" /\ entry = NULL /\ conns = <<>>
    /\ contacts_mapping = NULL /\ lookup = NULL /\ messages_df = NULL /\ raised = NULL
AppIdle ==
    /\ app_table = <<>> /\ date_range = NULL /\ app_df = <<>> /\ app_pc = "idle"
    /\ app_raised = NULL /\ report = NULL
ExpIdle ==
    /\ exp_table = <<>> /\ exp_pc = "idle" /\ unique_chats = <<>> /\ exported_count = 0
    /\ chat_txt_files = EmptyDict /\ exported = <<>>

----------------------------------------------------------------------------
(* SpecNormalize: normalize_phone applied to one phone string *)

Normalize ==
    /\ num = NULL
    /\ num' = Val(normalize_phone(phone))
    /\ UNCHANGED <<phone, vcfVars, pipeVars, appVars, expVars>>

InitNormalize ==
    phone \in PhoneInputs /\ num = NULL /\ VcfIdle /\ PipeIdle /\ AppIdle /\ ExpIdle
NextNormalize == Normalize
SpecNormalize == InitNormalize /\ [][NextNormalize]_vars

----------------------------------------------------------------------------
(* SpecContacts: a contacts.vcf is written line by line, then parsed *)

WriteLine ==
    /\ contacts = NULL
    /\ Len(vcf_file) < MaxLines
    /\ \E line \in VcfLines : vcf_file' = Append(vcf_file, line)
    /\ UNCHANGED <<contacts, normVars, pipeVars, appVars, expVars>>

Parse ==
    /\ contacts = NULL
    /\ contacts' = Val(parse_contacts(vcf_file))
    /\ UNCHANGED <<vcf_file, normVars, pipeVars, appVars, expVars>>

InitContacts ==
    vcf_file = <<>> /\ contacts = NULL /\ NormIdle /\ PipeIdle /\ AppIdle /\ ExpIdle
NextContacts == WriteLine \/ Parse
SpecContacts == InitContacts /\ [][NextContacts]_vars

----------------------------------------------------------------------------
(* Spec: msgstore.db is filled, then load_whatsapp_data() or lookup_table()
   is called once *)

\* Rows are added with the next row id (INTEGER PRIMARY KEY).
InsertJid ==
    /\ pc = "idle" /\ "jid" \in db.tables /\ RowCount(db) < MaxRows
    /\ Len(db.jid) < Cardinality(RowIds)
    /\ \E id \in Identities :
          db' = [db EXCEPT !.jid = Append(@, [_id |-> Len(@) + 1] @@ id)]
    /\ UNCHANGED <<fs, pc, entry, conns, contacts_mapping, lookup, messages_df, raised,
                   normVars, vcfVars, appVars, expVars>>

InsertChat ==
    /\ pc = "idle" /\ "chat" \in db.tables /\ RowCount(db) < MaxRows
    /\ Len(db.chat) < Cardinality(RowIds)
    /\ \E j \in RowIds, subject \in Subjects :
          db' = [db EXCEPT !.chat =
                    Append(@, [_id |-> Len(@) + 1, jid_row_id |-> j, subject |-> subject])]
    /\ UNCHANGED <<fs, pc, entry, conns, contacts_mapping, lookup, messages_df, raised,
                   normVars, vcfVars, appVars, expVars>>

InsertMessage ==
    /\ pc = "idle" /\ "message" \in db.tables /\ RowCount(db) < MaxRows
    /\ Len(db.message) < MaxMsgs
    /\ \E c \in RowIds, s \in Senders :
          db' = [db EXCEPT !.message =
                    Append(@, [_id               |-> Len(@) + 1,
                               chat_row_id       |-> c,
                               from_me           |-> s.from_me,
                               timestamp         |-> Clock(Len(@) + 1),
                               text_data         |-> Val(HI),
                               sender_jid_row_id |-> s.sender])]
    /\ UNCHANGED <<fs, pc, entry, conns, contacts_mapping, lookup, messages_df, raised,
                   normVars, vcfVars, appVars, expVars>>

\* A query raises when its table is not in the database.
CanRead(tables) == tables \subseteq db.tables

\* load_whatsapp_data(), line 83: sqlite3.connect.
CallLoad ==
    /\ pc = "idle"
    /\ entry' = Val("load_whatsapp_data")
    /\ conns' = Append(conns, "open")
    /\ pc' = "load_read"
    /\ UNCHANGED <<fs, db, contacts_mapping, lookup, messages_df, raised, normVars, vcfVars, appVars, expVars>>

\* Lines 86-108: the three queries, the merges, conn.close(), datetime.  A query
\* that raises leaves the function before conn.close().
LoadRead ==
    /\ pc = "load_read"
    /\ IF CanRead({"chat", "message", "jid"})
       THEN /\ messages_df' = Val(LoadFrame(db))
            /\ conns' = [conns EXCEPT ![Len(conns)] = "closed"]
            /\ pc' = "load_contacts"
            /\ UNCHANGED raised
       ELSE /\ raised' = Val("DatabaseError")
            /\ pc' = "raised"
            /\ UNCHANGED <<messages_df, conns>>
    /\ UNCHANGED <<fs, db, entry, contacts_mapping, lookup, normVars, vcfVars, appVars, expVars>>

\* Line 110: contacts_mapping = load_contacts().
LoadContacts ==
    /\ pc = "load_contacts"
    /\ contacts_mapping' = Val(load_contacts(fs))
    /\ pc' = "lookup_parse"
    /\ UNCHANGED <<fs, db, entry, conns, lookup, messages_df, raised, normVars, vcfVars, appVars, expVars>>

\* lookup_table() called by the dashboard itself (app.py, line 11).
CallLookup ==
    /\ pc = "idle"
    /\ entry' = Val("lookup_table")
    /\ pc' = "lookup_parse"
    /\ UNCHANGED <<fs, db, conns, contacts_mapping, lookup, messages_df, raised,
                   normVars, vcfVars, appVars, expVars>>

\* lookup_table(), lines 52-55: parse_contacts("contacts.vcf") opens the file
\* whether it exists or not; then sqlite3.connect.
LookupParse ==
    /\ pc = "lookup_parse"
    /\ IF fs = NULL
       THEN /\ raised' = Val("FileNotFoundError")
            /\ pc' = "raised"
            /\ UNCHANGED conns
       ELSE /\ conns' = Append(conns, "open")
            /\ pc' = "lookup_read"
            /\ UNCHANGED raised
    /\ UNCHANGED <<fs, db, entry, contacts_mapping, lookup, messages_df, normVars, vcfVars, appVars, expVars>>

\* Lines 58-77: the two queries, conn.close(), the table built and returned.
LookupRead ==
    /\ pc = "lookup_read"
    /\ IF CanRead({"chat", "jid"})
       THEN /\ lookup' = Val(LookupFrame(parse_contacts(fs.v), db))
            /\ conns' = [conns EXCEPT ![Len(conns)] = "closed"]
            /\ pc' = IF entry = Val("lookup_table") THEN "returned" ELSE "display"
            /\ UNCHANGED raised
       ELSE /\ raised' = Val("DatabaseError")
            /\ pc' = "raised"
            /\ UNCHANGED <<lookup, conns>>
    /\ UNCHANGED <<fs, db, entry, contacts_mapping, messages_df, normVars, vcfVars, appVars, expVars>>

\* load_whatsapp_data(), lines 114-129: display_name, the canonical columns.
Display ==
    /\ pc = "display"
    /\ messages_df' = Val(Canonical(messages_df.v, contacts_mapping.v, lookup.v))
    /\ pc' = "returned"
    /\ UNCHANGED <<fs, db, entry, conns, contacts_mapping, lookup, raised, normVars, vcfVars, appVars, expVars>>

Init ==
    /\ fs \in VcfFiles
    /\ db \in {EmptyStore(AllTables), EmptyStore({})}
    /\ pc = "idle" /\ entry = NULL /\ conns = <<>>
    /\ contacts_mapping = NULL /\ lookup = NULL /\ messages_df = NULL /\ raised = NULL
    /\ NormIdle /\ VcfIdle /\ AppIdle /\ ExpIdle

Next ==
    \/ InsertJid \/ InsertChat \/ InsertMessage
    \/ CallLoad \/ LoadRead \/ LoadContacts
    \/ CallLookup \/ LookupParse \/ LookupRead
    \/ Display

Spec == Init /\ [][Next]_vars

\* The invocation has ended: it returned or an exception left it.
Returned == pc = "returned"
Ended == pc \in {"returned", "raised"}

----------------------------------------------------------------------------
(* app.py: the dashboard script, section by section *)

MsPerHour   == 3600000
MsPerMinute == 60000
\* default_tz = 'Europe/Rome': one hour ahead of UTC on the model's dates.
RomeOffsetHours == 1

\* datetime.dt.date, as the day since the epoch.
DateOf(ts) == ts \div MsPerDay
\* local_datetime.dt.hour
HourOf(ts) == (((ts % MsPerDay) \div MsPerHour) + RomeOffsetHours) % 24

Min(S) == CHOOSE x \in S : \A y \in S : x <= y
Max(S) == CHOOSE x \in S : \A y \in S : x >= y
Indices(df) == 1..Len(df)

\* round(a / b) for a >= 0 and b > 0, ties to even.
RoundDiv(a, b) ==
    LET q == a \div b
        r == a % b
    IN  IF 2 * r > b \/ (2 * r = b /\ q % 2 = 1) THEN q + 1 ELSE q

\* load_data(start, end): the rows whose date lies in the inclusive range.
load_data(table, range) ==
    SelectSeq(table, LAMBDA m : DateOf(m.timestamp) >= range.start
                                    /\ DateOf(m.timestamp) <= range.end)

\* (date_range[1] - date_range[0]).days
RangeDays(range) == range.end - range.start

\* Lines 69-79.  The average is kept in tenths: round(len / days, 1).
Overview(df, range) ==
    [total          |-> Len(df),
     active_chats   |-> Cardinality({df[i].chat_row_id : i \in {j \in Indices(df) : df[j].text_data # NULL}}),
     unique_senders |-> Cardinality({df[i].sender_jid_row_id : i \in Indices(df)}),
     average_tenths |-> RoundDiv(10 * Len(df), RangeDays(range))]

\* Lines 186-224: the messages of each local hour, and the first hour with the
\* most of them.
HourCount(df, h) == Cardinality({i \in Indices(df) : HourOf(df[i].timestamp) = h})
Hours(df) == {HourOf(df[i].timestamp) : i \in Indices(df)}
Hourly(df) ==
    LET most == Max({HourCount(df, h) : h \in Hours(df)})
    IN  [total           |-> Len(df),
         peak_hour       |-> Min({h \in Hours(df) : HourCount(df, h) = most}),
         peak_hour_count |-> most]

\* Lines 235-268: the four categories with their counts and percentages (in
\* tenths of a percent).
expected_categories ==
    <<"One-on-One (Sent)", "One-on-One (Received)", "Group (Sent)", "Group (Received)">>
ChatType(m) ==
    <<IF m.group # NULL THEN "Group" ELSE "One-on-One",
      IF m.from_me = 1 THEN " (Sent)" ELSE " (Received)">>
CategoryParts ==
    [c \in {expected_categories[k] : k \in 1..4} |->
        CASE c = "One-on-One (Sent)"     -> <<"One-on-One", " (Sent)">>
          [] c = "One-on-One (Received)" -> <<"One-on-One", " (Received)">>
          [] c = "Group (Sent)"          -> <<"Group", " (Sent)">>
          [] c = "Group (Received)"      -> <<"Group", " (Received)">>]
\* A split that lists only the categories that occur (the groupby result).
ChatTypesObserved(df) ==
    LET count(k) == Cardinality({i \in Indices(df) :
                        ChatType(df[i]) = CategoryParts[expected_categories[k]]})
        seen == SelectSeq(<<1, 2, 3, 4>>, LAMBDA k : count(k) > 0)
    IN  [n \in Indices(seen) |->
            [chat_type  |-> expected_categories[seen[n]],
             count      |-> count(seen[n]),
             percentage |-> RoundDiv(1000 * count(seen[n]), Len(df))]]

ChatTypes(df) ==
    [k \in 1..4 |->
        LET n == Cardinality({i \in Indices(df) :
                                 ChatType(df[i]) = CategoryParts[expected_categories[k]]})
        IN  [chat_type  |-> expected_categories[k],
             count      |-> n,
             percentage |-> RoundDiv(1000 * n, Len(df))]]

\* Lines 350-435: msg_length is NaN for a message without text.
HasText(m) == m.text_data # NULL
WithText(df) == {i \in Indices(df) : HasText(df[i])}
Lengths(df) == {Len(df[i].text_data.v) : i \in WithText(df)}
LengthCount(df, n) == Cardinality({i \in WithText(df) : Len(df[i].text_data.v) = n})
LengthInsights(df) ==
    LET most == Max({LengthCount(df, n) : n \in Lengths(df)})
    IN  [longest     |-> Max(Lengths(df)),
         most_common |-> Min({n \in Lengths(df) : LengthCount(df, n) = most})]

\* Lines 441-459.  sort_values(['chat_row_id', 'timestamp']) of the one-on-one
\* messages.
Before(a, b) ==
    \/ a.chat_row_id < b.chat_row_id
    \/ (a.chat_row_id = b.chat_row_id /\ a.timestamp < b.timestamp)
RECURSIVE Insert(_, _)
Insert(sorted, m) ==
    IF sorted = <<>> THEN <<m>>
    ELSE IF Before(m, Head(sorted)) THEN <<m>> \o sorted
    ELSE <<Head(sorted)>> \o Insert(Tail(sorted), m)
RECURSIVE SortChatTime(_)
SortChatTime(df) ==
    IF df = <<>> THEN <<>>
    ELSE Insert(SortChatTime(SubSeq(df, 1, Len(df) - 1)), df[Len(df)])

\* A variant without the filter on the group column.
one_on_one_messages_unfiltered(df) == SortChatTime(df)

one_on_one_messages(df) == SortChatTime(SelectSeq(df, LAMBDA m : m.group = NULL))

\* groupby('chat_row_id').shift(1): the row before in the same chat, if any.
HasPrev(oo, i) == i > 1 /\ oo[i - 1].chat_row_id = oo[i].chat_row_id

\* response_time_mins, kept in ms: NaN unless the direction changed.
ResponseTime(oo, i) ==
    IF HasPrev(oo, i) /\ oo[i].from_me # oo[i - 1].from_me
    THEN Val(oo[i].timestamp - oo[i - 1].timestamp)
    ELSE NULL

DayMinutes == 1440
\* response_time_mins > 0 and <= 24 * 60
Reasonable(t) == t # NULL /\ t.v > 0 /\ t.v <= DayMinutes * MsPerMinute

\* response_analysis: the retained rows with their response times.
response_analysis(df) ==
    LET oo   == one_on_one_messages(df)
        kept == SelectSeq([i \in Indices(oo) |-> oo[i] @@ [response_time |-> ResponseTime(oo, i)]],
                          LAMBDA m : Reasonable(m.response_time))
    IN  [i \in Indices(kept) |-> [kept[i] EXCEPT !.response_time = @.v]]

\* The rows of one direction, and twice the median of their times.
TimesOf(ra, from_me) == SelectSeq(ra, LAMBDA m : m.from_me = from_me)
\* The k-th smallest response time of the rows.
Kth(rows, k) ==
    CHOOSE v \in {rows[i].response_time : i \in Indices(rows)} :
        /\ Cardinality({i \in Indices(rows) : rows[i].response_time < v}) < k
        /\ Cardinality({i \in Indices(rows) : rows[i].response_time <= v}) >= k
Median2(rows) ==
    LET n == Len(rows)
    IN  IF n % 2 = 1 THEN 2 * Kth(rows, (n + 1) \div 2)
        ELSE Kth(rows, n \div 2) + Kth(rows, (n \div 2) + 1)

\* Lines 462-464: response_analysis.groupby('from_me') aggregated; a direction
\* without a response has no row.
response_stats(ra) ==
    LET row(d) == IF TimesOf(ra, d) = <<>> THEN <<>>
                  ELSE <<[from_me |-> d, count |-> Len(TimesOf(ra, d)),
                          median2 |-> Median2(TimesOf(ra, d))]>>
    IN  row(0) \o row(1)

\* Lines 483-484.
time_bins == <<0, 1, 5, 15, 30, 60, 120, DayMinutes>>
time_labels ==
    <<"<1 min", "1-5 mins", "5-15 mins", "15-30 mins", "30-60 mins", "1-2 hours", "2-24 hours">>

\* A cut whose last bin is closed on the right.
cut_closed(t) ==
    LET fits(k) == /\ time_bins[k] * MsPerMinute <= t
                   /\ \/ t < time_bins[k + 1] * MsPerMinute
                      \/ (k = 7 /\ t = time_bins[8] * MsPerMinute)
    IN  IF \E k \in 1..7 : fits(k) THEN Val(time_labels[CHOOSE k \in 1..7 : fits(k)]) ELSE NULL

\* pd.cut(response_time_mins, bins=time_bins, labels=time_labels, right=False):
\* the label of the bin [low, high) that holds the time, NaN when none does.
cut(t) ==
    LET fits(k) == time_bins[k] * MsPerMinute <= t /\ t < time_bins[k + 1] * MsPerMinute
    IN  IF \E k \in 1..7 : fits(k) THEN Val(time_labels[CHOOSE k \in 1..7 : fits(k)]) ELSE NULL

\* Lines 487-496: groupby(['from_me', 'response_category'], observed=True).size(),
\* a row for each pair that occurs; rows without a category are dropped.
time_dist(ra) ==
    LET size(d, k) == Cardinality({i \in Indices(ra) :
                          ra[i].from_me = d /\ cut(ra[i].response_time) = Val(time_labels[k])})
        pairs == [n \in 1..14 |-> [from_me |-> (n - 1) \div 7, k |-> ((n - 1) % 7) + 1]]
        seen  == SelectSeq(pairs, LAMBDA p : size(p.from_me, p.k) > 0)
    IN  [n \in Indices(seen) |->
            [from_me |-> seen[n].from_me, response_category |-> time_labels[seen[n].k],
             count |-> size(seen[n].from_me, seen[n].k)]]

\* Lines 441-520: what the section shows before its insights.
ResponseSection(df) ==
    LET ra == response_analysis(df)
    IN  [responses |-> [i \in Indices(ra) |->
                           [_id |-> ra[i]._id, from_me |-> ra[i].from_me,
                            response_time |-> ra[i].response_time]],
         stats     |-> response_stats(ra),
         time_dist |-> time_dist(ra)]

\* Lines 523-531: the count and median of each direction.
ResponseInsights(ra) ==
    [your_count    |-> Len(TimesOf(ra, 1)),
     your_median2  |-> Median2(TimesOf(ra, 1)),
     their_count   |-> Len(TimesOf(ra, 0)),
     their_median2 |-> Median2(TimesOf(ra, 0))]

----------------------------------------------------------------------------
(* SpecApp: a table is loaded, a date range is picked, the script runs *)

\* Chat 1 is a one-on-one chat, chat 2 a group.
AppChats == {[chat_row_id |-> 1, group |-> NULL], [chat_row_id |-> 2, group |-> Val(TEAM)]}
\* The minutes from one message to the next: a minute, three quarters of an
\* hour, a day, three days.
AppGaps  == {1, 45, DayMinutes, 3 * DayMinutes}
AppTexts == {NULL, Val(HI)}
MaxAppMsgs == 3     \* most messages of the table the dashboard loads

LastDay(table) == DateOf(table[Len(table)].timestamp)
\* The timestamp of a message that follows the table's last one by gap minutes;
\* the first message is sent a minute after midnight.
NextTimestamp(table, gap) ==
    IF table = <<>> THEN MsPerMinute ELSE table[Len(table)].timestamp + gap * MsPerMinute

\* A canonical row as load_whatsapp_data returns it: a received message of the
\* group has a sender identity, any other message has none and takes the
\* chat's peer as display name.
AppRow(n, chat, from_me, ts, text) ==
    LET has_sender == chat.group # NULL /\ from_me = 0
    IN  [_id               |-> n,
         chat_row_id       |-> chat.chat_row_id,
         user              |-> IF has_sender THEN Val(U_ALICE) ELSE NULL,
         display_name      |-> IF has_sender THEN Val(U_ALICE)
                               ELSE IF chat.group = NULL THEN Val(normalize_phone(U_BO)) ELSE NULL,
         group             |-> chat.group,
         from_me           |-> from_me,
         text_data         |-> text,
         timestamp         |-> ts,
         datetime          |-> to_datetime(ts),
         sender_jid_row_id |-> IF has_sender THEN Val(1) ELSE NULL,
         _id_jid           |-> IF has_sender THEN Val(1) ELSE NULL,
         server            |-> IF has_sender THEN Val(USER_SERVER) ELSE NULL]

\* The store gains a message, later than those it holds.
AppInsert ==
    /\ app_pc = "idle"
    /\ Len(app_table) < MaxAppMsgs
    /\ \E chat \in AppChats, from_me \in {0, 1}, text \in AppTexts,
          gap \in (IF app_table = <<>> THEN {1} ELSE AppGaps) :
          app_table' = Append(app_table, AppRow(Len(app_table) + 1, chat, from_me,
                                                NextTimestamp(app_table, gap), text))
    /\ UNCHANGED <<date_range, app_df, app_pc, app_raised, report, normVars, vcfVars, pipeVars, expVars>>

\* The ranges picked in the sidebar: the default (first to last message), the
\* first day alone, the last day alone, and the days strictly between the
\* first and the last.
AppRanges(table) ==
    LET min_date == DateOf(table[1].timestamp)
        max_date == LastDay(table)
    IN  {[start |-> min_date, end |-> max_date], [start |-> min_date, end |-> min_date],
         [start |-> max_date, end |-> max_date]}
            \cup (IF min_date + 1 <= max_date - 1
                  THEN {[start |-> min_date + 1, end |-> max_date - 1]} ELSE {})

\* Lines 45-63: the date picker offers the dates from the first to the last
\* message; the table is filtered to the range picked.
AppSelect ==
    /\ app_pc = "idle"
    /\ app_table # <<>>
    /\ \E range \in AppRanges(app_table) :
          /\ date_range' = range
          /\ app_df' = load_data(app_table, range)
    /\ app_pc' = "overview"
    /\ report' = <<>>
    /\ UNCHANGED <<app_table, app_raised, normVars, vcfVars, pipeVars, expVars>>

AppRaise(exception) ==
    /\ app_raised' = Val(exception)
    /\ app_pc' = "raised"
    /\ UNCHANGED report

AppShow(section, next) ==
    /\ report' = Append(report, section)
    /\ app_pc' = next
    /\ UNCHANGED app_raised

\* Lines 66-79: len(messages_df) / (date_range[1] - date_range[0]).days
AppOverview ==
    /\ app_pc = "overview"
    /\ IF RangeDays(date_range) = 0
       THEN AppRaise("ZeroDivisionError")
       ELSE AppShow(Overview(app_df, date_range), "hourly")
    /\ UNCHANGED <<app_table, date_range, app_df, normVars, vcfVars, pipeVars, expVars>>

\* Lines 84-230: idxmax() of an empty Series raises.
AppHourly ==
    /\ app_pc = "hourly"
    /\ IF app_df = <<>>
       THEN AppRaise("ValueError")
       ELSE AppShow(Hourly(app_df), "chat_types")
    /\ UNCHANGED <<app_table, date_range, app_df, normVars, vcfVars, pipeVars, expVars>>

\* Lines 232-345.
AppChatTypes ==
    /\ app_pc = "chat_types"
    /\ AppShow(ChatTypes(app_df), "length")
    /\ UNCHANGED <<app_table, date_range, app_df, normVars, vcfVars, pipeVars, expVars>>

\* Lines 347-435: msg_length.idxmax() and mode().iloc[0] have nothing to return
\* when no message has text.
AppLength ==
    /\ app_pc = "length"
    /\ IF WithText(app_df) = {}
       THEN AppRaise("ValueError")
       ELSE AppShow(LengthInsights(app_df), "response")
    /\ UNCHANGED <<app_table, date_range, app_df, normVars, vcfVars, pipeVars, expVars>>

\* Lines 437-539: the response times, their statistics and their histogram are
\* shown; then ['median'].iloc[0] of a direction without a response, and
\* iloc[0] of the fastest responder, index an empty frame.
AppResponse ==
    /\ app_pc = "response"
    /\ LET ra    == response_analysis(app_df)
           shown == Append(report, ResponseSection(app_df))
       IN  IF TimesOf(ra, 1) = <<>> \/ TimesOf(ra, 0) = <<>>
           THEN /\ report' = shown
                /\ app_raised' = Val("IndexError")
                /\ app_pc' = "raised"
           ELSE /\ report' = Append(shown, ResponseInsights(ra))
                /\ app_pc' = "done"
                /\ UNCHANGED app_raised
    /\ UNCHANGED <<app_table, date_range, app_df, normVars, vcfVars, pipeVars, expVars>>

InitApp == AppIdle /\ NormIdle /\ VcfIdle /\ PipeIdle /\ ExpIdle
NextApp ==
    \/ AppInsert \/ AppSelect
    \/ AppOverview \/ AppHourly \/ AppChatTypes \/ AppLength \/ AppResponse
SpecApp == InitApp /\ [][NextApp]_vars

----------------------------------------------------------------------------
(* txt_export.py: the transcript exporter *)

DigitChar(d) == Digit[IF d = 0 THEN 10 ELSE d]
TwoDigits(n) == <<DigitChar((n \div 10) % 10), DigitChar(n % 10)>>
UNKNOWN_TIME == <<"U", "n", "k", "n", "o", "w", "n", " ", "T", "i", "m", "e">>

\* datetime.fromtimestamp(ts / 1000).strftime('%Y-%m-%d %H:%M:%S'), for the
\* timestamps of January 1970 and a local time that is UTC; a timestamp that is
\* no number gives "Unknown Time".
format_timestamp(ts) ==
    IF ts \notin Int THEN UNKNOWN_TIME
    ELSE LET secs == ts \div 1000
         IN  <<"1", "9", "7", "0", "-", "0", "1", "-">> \o TwoDigits((secs \div 86400) + 1)
                 \o <<" ">> \o TwoDigits((secs \div 3600) % 24)
                 \o <<":">> \o TwoDigits((secs \div 60) % 60)
                 \o <<":">> \o TwoDigits(secs % 60)

\* c.isalnum(), on the letters and digits of the model's texts.
isalnum(c) ==
    c \in {LowerCase[i] : i \in 1..Len(LowerCase)} \cup {UpperCase[i] : i \in 1..Len(UpperCase)}
              \cup {Digit[i] : i \in 1..Len(Digit)}

sanitize_filename(filename) ==
    [i \in 1..Len(filename) |->
        IF isalnum(filename[i]) \/ filename[i] \in {" ", "_", "-"} THEN filename[i] ELSE "_"]

\* f"{x}" of a display_name: the missing value of that column is NaN.
Format(x) == IF x = NULL THEN <<"n", "a", "n">> ELSE x.v

CHAT_WITH == <<"C", "h", "a", "t", " ", "w", "i", "t", "h", " ">>
get_chat_filename(chat_row, first_msg) ==
    LET is_group == chat_row.group # NULL
    IN  sanitize_filename(IF ~is_group THEN CHAT_WITH \o Format(first_msg.display_name)
                          ELSE chat_row.group.v)

\* The line export_chat_to_file writes for one message (line 36-39).
ME == <<"M", "e">>
MessageLine(msg) ==
    LET sender == IF msg.from_me = 1 THEN ME ELSE Format(msg.display_name)
        ts     == format_timestamp(msg.timestamp)
        text   == IF msg.text_data # NULL THEN msg.text_data.v ELSE <<>>
    IN  ts \o <<" ", "-", " ">> \o sender \o <<":", " ">> \o text \o <<"\n">>

\* export_chat_to_file: the text of the file once it is closed.
RECURSIVE export_chat_to_file(_)
export_chat_to_file(chat_msgs) ==
    IF chat_msgs = <<>> THEN <<>>
    ELSE MessageLine(Head(chat_msgs)) \o export_chat_to_file(Tail(chat_msgs))

\* messages_df[['chat_row_id', 'group']].drop_duplicates(): the first row of
\* each (chat_row_id, group) pair, in the order of the table.
unique_chats_of(df) ==
    LET pair(i) == [chat_row_id |-> df[i].chat_row_id, group |-> df[i].group]
        firsts  == {i \in 1..Len(df) : \A j \in 1..(i - 1) : pair(j) # pair(i)}
        RECURSIVE Take(_)
        Take(i) == IF i > Len(df) THEN <<>>
                   ELSE (IF i \in firsts THEN <<pair(i)>> ELSE <<>>) \o Take(i + 1)
    IN  Take(1)

\* Lines 59-60: the messages of the chat, sorted by timestamp.
chat_msgs_of(df, chat_id) == SortChatTime(SelectSeq(df, LAMBDA m : m.chat_row_id = chat_id))

\* A variant that takes every message with a text, blank or not.
actual_msgs_notnull(chat_msgs) == SelectSeq(chat_msgs, LAMBDA m : m.text_data # NULL)

\* Line 63: text_data.notnull() & (text_data.str.strip() != "")
actual_msgs(chat_msgs) ==
    SelectSeq(chat_msgs, LAMBDA m : m.text_data # NULL /\ Strip(m.text_data.v) # <<>>)

TXT == <<".", "t", "x", "t">>

----------------------------------------------------------------------------
(* SpecExport: a table is loaded, export_all_chats() writes the transcripts *)

TEAM_CHAT == <<"T", "e", "a", "m", "/", "C", "h", "a", "t">>
\* Chat 1 is a one-on-one chat (its chat row has no subject), chat 2 a group,
\* chat 3 a chat whose subject is the empty text.
ExpChats ==
    {[chat_row_id |-> 1, group |-> NULL],
     [chat_row_id |-> 2, group |-> Val(TEAM_CHAT)],
     [chat_row_id |-> 3, group |-> Val(<<>>)]}
\* No text, a blank text, a text of one line, a text of two lines.
ExpTexts == {NULL, Val(<<" ">>), Val(HI), Val(<<"a", "\n", "b">>)}
BO == <<"B", "o">>
AL == <<"A", "l">>

\* A canonical row as load_whatsapp_data returns it: a received message of a
\* chat with a subject has a sender identity and its name; any other message
\* has none and takes the one-on-one chat's peer as display name (NaN when the
\* chat has a subject).
ExpRow(n, chat, from_me, ts, text) ==
    LET has_sender == chat.group # NULL /\ from_me = 0
    IN  [_id               |-> n,
         chat_row_id       |-> chat.chat_row_id,
         user              |-> IF has_sender THEN Val(U_ALICE) ELSE NULL,
         display_name      |-> IF has_sender THEN Val(AL)
                               ELSE IF chat.group = NULL THEN Val(BO) ELSE NULL,
         group             |-> chat.group,
         from_me           |-> from_me,
         text_data         |-> text,
         timestamp         |-> ts,
         datetime          |-> to_datetime(ts),
         sender_jid_row_id |-> IF has_sender THEN Val(1) ELSE NULL,
         _id_jid           |-> IF has_sender THEN Val(1) ELSE NULL,
         server            |-> IF has_sender THEN Val(USER_SERVER) ELSE NULL]

\* The store gains a message; the rows are in insertion order, which need not
\* be the order of their (distinct) timestamps.
ExpInsert ==
    /\ exp_pc = "idle"
    /\ Len(exp_table) < MaxExportMsgs
    /\ \E chat \in ExpChats, from_me \in {0, 1}, text \in ExpTexts,
          k \in 1..(MaxExportMsgs + 1) :
          /\ \A i \in 1..Len(exp_table) : exp_table[i].timestamp # Clock(k)
          /\ exp_table' = Append(exp_table, ExpRow(Len(exp_table) + 1, chat, from_me,
                                                   Clock(k), text))
    /\ UNCHANGED <<exp_pc, unique_chats, exported_count, chat_txt_files, exported,
                   normVars, vcfVars, pipeVars, appVars>>

\* Lines 43-52: the table loaded, the folder made, the chats listed.
ExportStart ==
    /\ exp_pc = "idle"
    /\ unique_chats' = unique_chats_of(exp_table)
    /\ exported_count' = 0
    /\ exp_pc' = "loop"
    /\ UNCHANGED <<exp_table, chat_txt_files, exported, normVars, vcfVars, pipeVars, appVars>>

\* Lines 55-78: one turn of the loop.  open(path, 'w') replaces a file of the
\* same name.
ExportChat ==
    /\ exp_pc = "loop"
    /\ unique_chats # <<>>
    /\ LET chat      == Head(unique_chats)
           chat_id   == chat.chat_row_id
           chat_msgs == chat_msgs_of(exp_table, chat_id)
       IN  IF actual_msgs(chat_msgs) = <<>>
           THEN UNCHANGED <<exported_count, chat_txt_files, exported>>
           ELSE LET first_msg == chat_msgs[1]
                    filename  == get_chat_filename(chat, first_msg) \o TXT
                    text      == export_chat_to_file(chat_msgs)
                IN  /\ chat_txt_files' = DictSet(chat_txt_files, filename, text)
                    /\ exported' = Append(exported, [chat_row_id |-> chat_id,
                                                     filename |-> filename, text |-> text])
                    /\ exported_count' = exported_count + 1
    /\ unique_chats' = Tail(unique_chats)
    /\ UNCHANGED <<exp_table, exp_pc, normVars, vcfVars, pipeVars, appVars>>

\* Line 80: the final summary.
ExportDone ==
    /\ exp_pc = "loop"
    /\ unique_chats = <<>>
    /\ exp_pc' = "done"
    /\ UNCHANGED <<exp_table, unique_chats, exported_count, chat_txt_files, exported,
                   normVars, vcfVars, pipeVars, appVars>>

InitExport == ExpIdle /\ NormIdle /\ VcfIdle /\ PipeIdle /\ AppIdle
NextExport == ExpInsert \/ ExportStart \/ ExportChat \/ ExportDone
SpecExport == InitExport /\ [][NextExport]_vars

----------------------------------------------------------------------------
(* Reference readings of a phone string and of a contact file, used to state
   the properties *)

\* The phone without '+' and '-', cut to the span from its first to its last
\* non-whitespace character.
Bare(p) == SelectSeq(p, LAMBDA c : c \notin {"+", "-"})
Ink(s) == {i \in 1..Len(s) : s[i] \notin Whitespace}
Trimmed(s) ==
    IF Ink(s) = {} THEN <<>>
    ELSE SubSeq(s, CHOOSE i \in Ink(s) : \A j \in Ink(s) : i <= j,
                   CHOOSE i \in Ink(s) : \A j \in Ink(s) : i >= j)
Last10(s) == IF Len(s) > 10 THEN SubSeq(s, Len(s) - 9, Len(s)) ELSE s

\* C4 (as stated): normalize_phone returns the last 10 characters of the phone
\* stripped of '+', '-' and surrounding whitespace, so its length is at most 10.
C4_TruncatesToLast10 ==
    num # NULL => /\ num.v = Last10(Trimmed(Bare(phone)))
                  /\ Len(num.v) <= 10

\* C4 (amended): normalize_phone returns the phone stripped of '+', '-' and
\* surrounding whitespace, whole, with "39" put in front when the stripped
\* string has exactly 10 characters; the result never has 10 characters and
\* has at most 2 more than the input.
C4_StripsAndPrefixes ==
    num # NULL =>
        LET t == Trimmed(Bare(phone))
        IN  /\ num.v = (IF Len(t) = 10 THEN <<"3", "9">> \o t ELSE t)
            /\ Len(num.v) # 10
            /\ Len(num.v) <= Len(phone) + 2

\* A phone with '+', '-' and surrounding whitespace whose stripped form has
\* more than 10 characters has been normalized.
C4_Witness ==
    /\ num # NULL
    /\ Len(Trimmed(Bare(phone))) > 10
    /\ Len(Bare(phone)) < Len(phone)
    /\ Len(Trimmed(Bare(phone))) < Len(Bare(phone))

----------------------------------------------------------------------------
(* A contact file read as a whole: which lines are what, and the name in
   force at a line *)

Shown(i) == Upper(Strip(vcf_file[i]))
IsDelim(i) == StartsWith(Shown(i), BEGIN_VCARD) \/ StartsWith(Shown(i), END_VCARD)
IsName(i) == StartsWith(Shown(i), FN_)
IsTel(i) == StartsWith(Shown(i), TEL_) /\ \E k \in 1..Len(vcf_file[i]) : vcf_file[i][k] = ":"

\* The name lines of line i's record that precede line i.
NamesBefore(i) ==
    {j \in 1..(i - 1) : IsName(j) /\ \A k \in j..(i - 1) : ~IsDelim(k)}
LastOf(S) == CHOOSE j \in S : \A k \in S : k <= j
NameOfLine(j) == Strip(SubSeq(Strip(vcf_file[j]), 4, Len(Strip(vcf_file[j]))))

\* The value of a telephone line: the text after its first colon.
TelValue(i) ==
    LET line == Strip(vcf_file[i])
        c == CHOOSE k \in 1..Len(line) : line[k] = ":" /\ \A m \in 1..(k - 1) : line[m] # ":"
    IN  Strip(SubSeq(line, c + 1, Len(line)))

\* The telephone lines that contribute an entry: a name line precedes them in
\* their record and the most recent one gives a non-empty name.
Contributing ==
    {i \in 1..Len(vcf_file) :
        IsTel(i) /\ NamesBefore(i) # {} /\ NameOfLine(LastOf(NamesBefore(i))) # <<>>}

\* C7: the parsed mapping holds exactly the keys normalize(value) of the
\* telephone lines that follow a name line of their own record, each mapped to
\* the name in force at the last such line with that key (last wins); a
\* telephone line before its record's name line, or in a record without a name,
\* contributes nothing, and no name carries over from an earlier record.
C7_ParseContacts ==
    contacts # NULL =>
        /\ DOMAIN contacts.v = {normalize_phone(TelValue(i)) : i \in Contributing}
        /\ \A k \in DOMAIN contacts.v :
              LET last == LastOf({i \in Contributing : normalize_phone(TelValue(i)) = k})
              IN  contacts.v[k] = NameOfLine(LastOf(NamesBefore(last)))

\* A parsed file in which a telephone line contributes nothing, and two
\* telephone lines with the same key carry different names (the later one is
\* kept).
C7_Witness ==
    /\ contacts # NULL
    /\ \E i \in 1..Len(vcf_file) : IsTel(i) /\ i \notin Contributing
    /\ \E i, j \in Contributing :
          /\ i < j
          /\ normalize_phone(TelValue(i)) = normalize_phone(TelValue(j))
          /\ NameOfLine(LastOf(NamesBefore(i))) # NameOfLine(LastOf(NamesBefore(j)))

----------------------------------------------------------------------------
(* The pipeline's claims (Spec) *)

Loaded == Returned /\ entry = Val("load_whatsapp_data")
Rows == 1..Len(messages_df.v)
EMPTY == <<>>
ALICE == <<"A", "l", "i", "c", "e">>

\* C1: every row's display_name is contact_book.get(normalize(raw_phone),
\* raw_phone) when the row has a sender identity, and
\* chat_fallback_map.get(chat_id, "") otherwise: the empty string for a chat
\* without an entry in the fallback map.
C1_DisplayNameRule ==
    Loaded =>
        \A i \in Rows :
            LET row == messages_df.v[i]
            IN  row.display_name =
                    IF row.user # NULL
                    THEN Val(DictGet(contacts_mapping.v, normalize_phone(row.user.v), row.user.v))
                    ELSE Val(DictGet(lookup_mapping(lookup.v), row.chat_row_id, EMPTY))

\* C2: every row of the canonical table has a non-null display_name and a
\* non-null datetime.
C2_NonNullNameAndDatetime ==
    Loaded => \A i \in Rows : /\ messages_df.v[i].display_name # NULL
                              /\ messages_df.v[i].datetime # NULL

\* C3: the merged frame and the canonical table have exactly the rows of the
\* message table, in its order: the two left merges drop and duplicate nothing.
C3_RowCount ==
    messages_df # NULL =>
        /\ Len(messages_df.v) = Len(db.message)
        /\ \A i \in Rows : messages_df.v[i]._id = db.message[i]._id

\* The table was returned for two messages, one with a sender identity and a
\* chat that exist, one whose sender id or chat id matches no row.
C3_Witness ==
    /\ Loaded
    /\ Len(db.message) = 2
    /\ \E i \in Rows : messages_df.v[i].user # NULL /\ messages_df.v[i]._id_jid # NULL
    /\ \E i \in Rows :
          \/ (messages_df.v[i].sender_jid_row_id # NULL /\ messages_df.v[i]._id_jid = NULL)
          \/ \A k \in 1..Len(db.chat) : db.chat[k]._id # messages_df.v[i].chat_row_id

\* C5: without a contacts.vcf, load_whatsapp_data on a readable store returns,
\* with an empty contact mapping and every phone as its own display name.
C5_MissingContactsNonFatal ==
    (fs = NULL /\ entry = Val("load_whatsapp_data") /\ CanRead(AllTables) /\ Ended) =>
        /\ Returned
        /\ contacts_mapping = Val(EmptyDict)
        /\ \A i \in Rows :
              messages_df.v[i].user # NULL =>
                  messages_df.v[i].display_name = messages_df.v[i].user

\* The contact book holds the single record FN:Alice / TEL:+1-555-0100.
AliceOnly == fs = Val(AliceFile)

\* C6 (as stated): with that contact book, a message from raw phone 5550100
\* has display_name "Alice".
C6_AliceResolved ==
    (Loaded /\ AliceOnly) =>
        \A i \in Rows :
            messages_df.v[i].user = Val(U_ALICE) => messages_df.v[i].display_name = Val(ALICE)

\* C6 (amended): with that contact book the only key is "15550100", which is
\* not the lookup key "5550100", so a message from raw phone 5550100 keeps the
\* raw phone as its display_name.
C6_AliceNotResolved ==
    (Loaded /\ AliceOnly) =>
        /\ contacts_mapping.v = (<<"1", "5", "5", "5", "0", "1", "0", "0">> :> ALICE)
        /\ normalize_phone(U_ALICE) = U_ALICE
        /\ \A i \in Rows :
              messages_df.v[i].user = Val(U_ALICE) =>
                  messages_df.v[i].display_name = Val(U_ALICE)

\* The table was returned with a message from raw phone 5550100 under that
\* contact book.
C6_Witness ==
    /\ Loaded /\ AliceOnly
    /\ \E i \in Rows : messages_df.v[i].user = Val(U_ALICE)

\* The chats of the chat-to-identity join: those whose jid_row_id is a row of jid.
Peer(c) == {k \in 1..Len(db.jid) : db.jid[k]._id = c.jid_row_id}
Joined == {k \in 1..Len(db.chat) : Peer(db.chat[k]) # {}}
PeerUser(k) == db.jid[CHOOSE j \in Peer(db.chat[k]) : TRUE].user.v
PeerServer(k) == db.jid[CHOOSE j \in Peer(db.chat[k]) : TRUE].server
LookupIds == {lookup.v[i].chat_id : i \in 1..Len(lookup.v)}
\* Each entry's value: the contact name for the normalized peer phone, else the
\* normalized phone; one entry per chat.
LookupValues ==
    /\ \A i, j \in 1..Len(lookup.v) : lookup.v[i].chat_id = lookup.v[j].chat_id => i = j
    /\ \A i \in 1..Len(lookup.v) :
          \E k \in Joined :
              /\ db.chat[k]._id = lookup.v[i].chat_id
              /\ lookup.v[i].display_name =
                     LET key == normalize_phone(PeerUser(k))
                     IN  IF key \in DOMAIN parse_contacts(fs.v)
                         THEN parse_contacts(fs.v)[key] ELSE key

\* C8 (as stated): the fallback map has an entry for exactly the joined chats
\* without a subject.
C8_EntriesBySubject ==
    lookup # NULL =>
        /\ LookupIds = {db.chat[k]._id : k \in {j \in Joined : db.chat[j].subject = NULL}}
        /\ LookupValues

\* C8 (amended): the fallback map has an entry for exactly the joined chats
\* whose identity's server is not 'g.us', with or without a subject; the value
\* is the contact name for the normalized peer phone, else the normalized phone.
C8_EntriesByServer ==
    lookup # NULL =>
        /\ LookupIds = {db.chat[k]._id : k \in {j \in Joined : PeerServer(j) # GROUP_SERVER}}
        /\ LookupValues

\* lookup_table returned for a chat with a subject whose identity is not on
\* 'g.us' (it has an entry, a contact's name) and a chat without a subject whose
\* identity is on 'g.us' (it has none).
C8_Witness ==
    /\ lookup # NULL
    /\ \E k \in Joined :
          /\ db.chat[k].subject # NULL /\ db.chat[k]._id \in LookupIds
          /\ normalize_phone(PeerUser(k)) \in DOMAIN parse_contacts(fs.v)
    /\ \E k \in Joined : db.chat[k].subject = NULL /\ db.chat[k]._id \notin LookupIds

\* C9: when the invocation has ended, by a return or by an exception, every
\* connection it opened is closed.
C9_ConnectionsClosed ==
    Ended => \A i \in 1..Len(conns) : conns[i] = "closed"

----------------------------------------------------------------------------
(* The dashboard's claims (SpecApp) *)

\* The filtered set is empty, or the range is a single date.
Degenerate == date_range # NULL /\ (app_df = <<>> \/ date_range.start = date_range.end)

\* C10: on an empty or fully-filtered message set, or a range whose start is
\* its end, the script raises nothing.
C10_DegenerateNeverRaises == Degenerate => app_raised = NULL

----------------------------------------------------------------------------
(* The exporter's table read as a whole: the chats, their messages in time
   order, the lines of a transcript *)

ExpRows == 1..Len(exp_table)
ExpChatIds == {exp_table[i].chat_row_id : i \in ExpRows}
RowsOfChat(c) == {i \in ExpRows : exp_table[i].chat_row_id = c}
\* A text that is not null and has a character that is not whitespace.
NonBlank(t) == t # NULL /\ \E k \in 1..Len(t.v) : t.v[k] \notin Whitespace
TextChats == {c \in ExpChatIds : \E i \in RowsOfChat(c) : NonBlank(exp_table[i].text_data)}
Calls == 1..Len(exported)
ExportedChats == {exported[i].chat_row_id : i \in Calls}

RankInChat(i) ==
    1 + Cardinality({j \in RowsOfChat(exp_table[i].chat_row_id) :
                        exp_table[j].timestamp < exp_table[i].timestamp})
KthOfChat(c, k) == exp_table[CHOOSE i \in RowsOfChat(c) : RankInChat(i) = k]

\* The lines of a text: the runs of characters that end with a newline.
RECURSIVE LinesOf(_)
LinesOf(text) ==
    IF \E k \in 1..Len(text) : text[k] = "\n"
    THEN LET k == CHOOSE j \in 1..Len(text) :
                      text[j] = "\n" /\ \A h \in 1..(j - 1) : text[h] # "\n"
         IN  <<SubSeq(text, 1, k - 1)>> \o LinesOf(SubSeq(text, k + 1, Len(text)))
    ELSE IF text = <<>> THEN <<>> ELSE <<text>>

\* The line of a message: its time, "Me" or its display name, its text (none
\* when null).
LineOf(m) ==
    format_timestamp(m.timestamp) \o <<" ", "-", " ">>
        \o (IF m.from_me = 1 THEN <<"M", "e">> ELSE Format(m.display_name))
        \o <<":", " ">> \o (IF m.text_data = NULL THEN <<>> ELSE m.text_data.v)

\* C12: the transcript written for a chat has exactly one line per message of
\* the chat, in ascending timestamp order, each labelled "Me" when the message
\* was sent and with its display name otherwise, a message without text
\* having an empty text.
C12_OneLinePerMessage ==
    \A e \in Calls :
        LET c     == exported[e].chat_row_id
            lines == LinesOf(exported[e].text)
        IN  /\ Len(lines) = Cardinality(RowsOfChat(c))
            /\ \A k \in 1..Len(lines) :
                  k <= Cardinality(RowsOfChat(c)) => lines[k] = LineOf(KthOfChat(c, k))

\* The characters a file name keeps.
Kept(c) == isalnum(c) \/ c \in {" ", "_", "-"}
Sanitized(base, name) ==
    /\ Len(name) = Len(base)
    /\ \A i \in 1..Len(base) : name[i] = (IF Kept(base[i]) THEN base[i] ELSE "_")
\* The group of a chat, and whether the chat is one-on-one: its subject is null
\* or empty.
GroupOf(c) == exp_table[CHOOSE i \in RowsOfChat(c) : TRUE].group
NoSubject(c) == GroupOf(c) = NULL \/ GroupOf(c).v = <<>>

\* C13: the base name of a chat's transcript is the sanitized subject for a
\* group chat and the sanitized "Chat with " + display_name for a one-on-one
\* chat (subject null or empty).
C13_FileBaseName ==
    \A e \in Calls :
        LET c    == exported[e].chat_row_id
            base == IF NoSubject(c)
                    THEN <<"C", "h", "a", "t", " ", "w", "i", "t", "h", " ">>
                             \o Format(KthOfChat(c, 1).display_name)
                    ELSE GroupOf(c).v
            name == exported[e].filename
        IN  /\ Len(name) >= 4
            /\ SubSeq(name, Len(name) - 3, Len(name)) = <<".", "t", "x", "t">>
            /\ Sanitized(base, SubSeq(name, 1, Len(name) - 4))

----------------------------------------------------------------------------
(* The dashboard's report read against the filtered table *)

\* The script has just shown the k-th section of its report (the response
\* section, the fifth, is shown by the script's last step).
Shows(k) ==
    /\ app_pc # "idle"
    /\ IF k = 5 THEN app_pc \in {"raised", "done"} /\ Len(report) >= 5 ELSE Len(report) = k
RECURSIVE SumOf(_, _)
SumOf(rows, field) == IF rows = <<>> THEN 0 ELSE Head(rows)[field] + SumOf(Tail(rows), field)
\* The messages of the filtered table in a kind of chat and a direction.
InCategory(is_group, sent) ==
    {i \in Indices(app_df) : (app_df[i].group # NULL) = is_group /\ (app_df[i].from_me = 1) = sent}
CategoryRows ==
    <<InCategory(FALSE, TRUE), InCategory(FALSE, FALSE), InCategory(TRUE, TRUE), InCategory(TRUE, FALSE)>>

PrevInChat(i) ==
    {j \in Indices(app_df) :
        /\ app_df[j].chat_row_id = app_df[i].chat_row_id
        /\ app_df[j].timestamp < app_df[i].timestamp
        /\ \A h \in Indices(app_df) :
              app_df[h].chat_row_id = app_df[i].chat_row_id
                  => ~(app_df[j].timestamp < app_df[h].timestamp
                       /\ app_df[h].timestamp < app_df[i].timestamp)}
DeltaTo(i, j) == app_df[i].timestamp - app_df[j].timestamp
IsResponse(i) ==
    /\ app_df[i].group = NULL
    /\ \E j \in PrevInChat(i) :
          /\ app_df[j].from_me # app_df[i].from_me
          /\ DeltaTo(i, j) > 0
          /\ DeltaTo(i, j) <= DayMinutes * MsPerMinute
Responses == {i \in Indices(app_df) : IsResponse(i)}

ResponsesOf(d) == SelectSeq(report[5].responses, LAMBDA r : r.from_me = d)
BinSum(d) == SumOf(SelectSeq(report[5].time_dist, LAMBDA r : r.from_me = d), "count")
NumberOfResponses(d) == SumOf(SelectSeq(report[5].stats, LAMBDA r : r.from_me = d), "count")
AtEdge(r) == r.response_time = DayMinutes * MsPerMinute

\* C16: for each direction the histogram counts sum to at most the number of
\* responses, and to exactly that number when and only when no retained
\* response time is 1440 minutes: such a time is counted but is in no bin,
\* every shorter one is in exactly one bin.
C16_BinsBelowCount ==
    Shows(5) =>
        \A d \in {0, 1} :
            /\ NumberOfResponses(d) = Len(ResponsesOf(d))
            /\ BinSum(d) <= NumberOfResponses(d)
            /\ BinSum(d) = NumberOfResponses(d)
                   <=> ~(\E n \in Indices(ResponsesOf(d)) : AtEdge(ResponsesOf(d)[n]))
            /\ BinSum(d) = Len(SelectSeq(ResponsesOf(d), LAMBDA r : ~AtEdge(r)))

\* The histogram was shown: a direction has a response of exactly 1440 minutes
\* and fewer binned responses than responses, another has all of its
\* responses in bins.
C16_Witness ==
    /\ Shows(5)
    /\ \E d \in {0, 1} :
          /\ \E n \in Indices(ResponsesOf(d)) : AtEdge(ResponsesOf(d)[n])
          /\ BinSum(d) < NumberOfResponses(d)
    /\ \E d \in {0, 1} : BinSum(d) = NumberOfResponses(d) /\ BinSum(d) > 0
====
